---- MODULE Spec2Model ----
(***************************************************************************)
(* Freezer inventory helper (streamlit_app.py).                            *)
(*                                                                         *)
(* One browser session of the Streamlit script.  Every user interaction    *)
(* (editing a widget, uploading files, clicking a button) triggers one     *)
(* top-to-bottom run of the script; one action of this module is one such  *)
(* run, including the rerun that st.rerun() requests.  Strings are         *)
(* sequences of one-character strings, so that str.strip() and string      *)
(* comparison are computed, not assumed.                                   *)
(***************************************************************************)
EXTENDS Integers, Sequences, FiniteSets, TLC

VARIABLES
    log,                \* st.session_state.log: list of entries, insertion order
    coordinate,         \* st.session_state.coordinate: value of the coordinate text_input
    description_area,   \* st.session_state.description_area: value of the text_area
    uploaded_files,     \* the files held by the file_uploader, in upload order
    now,                \* the last reading of datetime.now(), in whole seconds
    button,             \* the button click the last run served ("none": a widget
                        \* change, or a run aborted before the buttons)
    message,            \* the st.warning / st.success / st.info / exception of the last run
    popped,             \* the script variable popped of the last run
    calls,              \* history: the Add clicks made since the session started
    run,                \* the run in progress: its position in the script and
                        \* its local variables (RunSpec); no run is in
                        \* progress between two steps of Spec
    peer                \* st.session_state of a second browser session served
                        \* by the same process (SessionsSpec)

vars == << log, coordinate, description_area, uploaded_files, now,
           button, message, popped, calls, run, peer >>

-----------------------------------------------------------------------------
(* Bounds *)

MaxLog == 2         \* entries the ledger may hold
MaxClock == 1       \* seconds the clock may advance during the session

-----------------------------------------------------------------------------
(* Strings *)

EmptyStr == << >>

IsSpace(c) == c \in {" ", "\t", "\n"}

RECURSIVE LStrip(_)
LStrip(s) == IF s # << >> /\ IsSpace(Head(s)) THEN LStrip(Tail(s)) ELSE s

RECURSIVE RStrip(_)
RStrip(s) ==
    IF s # << >> /\ IsSpace(s[Len(s)]) THEN RStrip(SubSeq(s, 1, Len(s) - 1)) ELSE s

\* str.strip()
Strip(s) == RStrip(LStrip(s))

\* " | ".join(parts)
RECURSIVE Join(_)
Join(parts) ==
    IF parts = << >> THEN << >>
    ELSE IF Len(parts) = 1 THEN parts[1]
    ELSE parts[1] \o << " ", "|", " " >> \o Join(Tail(parts))

\* [x for x in xs if x.strip()]
RECURSIVE NonBlank(_)
NonBlank(xs) ==
    IF xs = << >> THEN << >>
    ELSE IF Strip(Head(xs)) # << >> THEN << Head(xs) >> \o NonBlank(Tail(xs))
    ELSE NonBlank(Tail(xs))

\* Code points of the characters used, for the string order of sort_values.
Ord(c) ==
    CASE c = "\t" -> 9  [] c = "\n" -> 10 [] c = " " -> 32
      [] c = "1" -> 49  [] c = "2" -> 50
      [] c = "A" -> 65  [] c = "B" -> 66
      [] c = "X" -> 88  [] c = "Y" -> 89
      [] c = "a" -> 97  [] c = "b" -> 98
      [] c = "|" -> 124
      [] OTHER -> 0

\* s < t in Python's string order
RECURSIVE StrLess(_, _)
StrLess(s, t) ==
    IF t = << >> THEN FALSE
    ELSE IF s = << >> THEN TRUE
    ELSE IF Head(s) # Head(t) THEN Ord(Head(s)) < Ord(Head(t))
    ELSE StrLess(Tail(s), Tail(t))

-----------------------------------------------------------------------------
(* Inputs *)

\* What the user may type in the coordinate box.  "A1" is the widget's default.
CoordInputs ==
    { << >>, << " " >>, << "A", "1" >>, << "a", "1", " " >>, << "B", "2" >> }

\* What the user may type in the description box.
DescInputs == { << >>, << " " >>, << "X" >>, << "Y" >> }

\* Responses of client.text_detection for one image.
OcrResponses ==
    { [kind |-> "error", texts |-> << >>],
      [kind |-> "annotations", texts |-> << >>],
      [kind |-> "annotations", texts |-> << << "X", "\n" >> >>],
      [kind |-> "raise", texts |-> << >>] }

\* Outcomes of openai_client.chat.completions.create.
LlmOutcomes ==
    { [kind |-> "content", text |-> << " ", "Y" >>],
      [kind |-> "content", text |-> << >>],
      [kind |-> "raise", text |-> << >>] }

\* What the user may put in the uploader.
UploadInputs == { << >>, << "img1" >> }

NoEntry == [Coordinate |-> << >>, Description |-> << >>, Timestamp |-> -1]

\* No run in progress.
NoRun == [pc |-> "idle"]

\* No second session connected.
NoPeer == [connected |-> FALSE]

-----------------------------------------------------------------------------
(* OCR and description synthesis: sections 3 and 4 of the script *)

\* ocr_bytes: the text of one image, given the annotation service's response.
\* A response of kind "raise" never reaches this function's body.
ocr_bytes(response) ==
    IF response.kind = "error" THEN EmptyStr
    ELSE IF response.texts # << >> THEN Strip(response.texts[1])
    ELSE EmptyStr

\* run_ocr: one result per file, in upload order.
run_ocr(responses) == [i \in DOMAIN responses |-> ocr_bytes(responses[i])]

\* combined_text: the "Image i: text" lines of the non-blank results.
combined_text(ocr_results) ==
    NonBlank([i \in DOMAIN ocr_results |->
                 IF Strip(ocr_results[i]) # << >>
                 THEN << "I", "m", "g" >> \o ocr_results[i]
                 ELSE << >>])

NoTextDetected == << "No text detected in images" >>

\* Mutant: a failed synthesis call yields no description.
process_with_llm_no_fallback(ocr_results, client, llm) ==
    IF ~client THEN Join(NonBlank(ocr_results))
    ELSE IF combined_text(ocr_results) = << >> THEN NoTextDetected
    ELSE IF llm.kind = "content" THEN Strip(llm.text)
    ELSE EmptyStr

\* process_with_llm
process_with_llm(ocr_results, client, llm) ==
    IF ~client THEN Join(NonBlank(ocr_results))
    ELSE IF combined_text(ocr_results) = << >> THEN NoTextDetected
    ELSE IF llm.kind = "content" THEN Strip(llm.text)
    ELSE Join(NonBlank(ocr_results))

\* Mutant: process_with_llm is called whatever the OCR results are.
processed_description_unguarded(responses, client, llm) ==
    IF responses = << >> THEN EmptyStr
    ELSE process_with_llm(run_ocr(responses), client, llm)

\* Section 4: processed_description of a run whose OCR calls all returned.
processed_description(responses, client, llm) ==
    IF responses = << >> THEN EmptyStr
    ELSE IF \E i \in DOMAIN responses : Strip(run_ocr(responses)[i]) # << >>
         THEN process_with_llm(run_ocr(responses), client, llm)
         ELSE EmptyStr

\* The ways sections 3-4 of one run can go with the given files uploaded:
\* the run is aborted when a text_detection call raises (nothing catches it),
\* otherwise it computes processed_description.  client is the value line 50
\* gives openai_client in that run (None when the secret is missing).
ProcessingOf(files) ==
    { [raised |-> \E i \in DOMAIN files : responses[i].kind = "raise",
       client |-> client,
       processed_description |->
           IF \E i \in DOMAIN files : responses[i].kind = "raise" THEN EmptyStr
           ELSE processed_description(responses, client, llm)] :
      responses \in [DOMAIN files -> OcrResponses], client \in BOOLEAN,
      llm \in LlmOutcomes }

ProcessingTable == [files \in UploadInputs |-> ProcessingOf(files)]

Processing(files) == ProcessingTable[files]

\* st.text_area(value=processed_description, key="description_area"): the
\* widget returns its session value, or the new default when the runtime
\* re-creates the widget because its default changed.  The default is
\* always "" while no file is uploaded, so it can only have changed in a run
\* with files, or in the run that follows their removal (may_change).
text_area(session_value, default, may_change) ==
    IF may_change THEN { session_value, default } ELSE { session_value }

\* TRUE iff a run with these files uploaded can be aborted by OCR raising.
MayRaise == [files \in UploadInputs |-> \E p \in ProcessingOf(files) : p.raised]

\* The processed_description values of the runs that reach the text_area.
ProcessedTable ==
    [files \in UploadInputs |->
        { p.processed_description :
          p \in { q \in ProcessingOf(files) : ~q.raised } }]

\* The values the text_area can hold after the run st.rerun() starts, when
\* its session value is v (a rerun whose OCR raises leaves v).
RunDescriptions(v, files) ==
    UNION { text_area(v, d, files # << >>) : d \in ProcessedTable[files] }

-----------------------------------------------------------------------------
(* The ledger operations of sections 5 and 7 *)

\* Mutant: the coordinate is tested for emptiness without strip().
coord_blank_unstripped(c) == c = << >>

\* `not coord.strip()` (lines 194, 218)
coord_blank(c) == Strip(c) = << >>

\* Mutant: the description is tested for emptiness without strip().
description_blank_unstripped(d) == d = << >>

\* `not sample_description.strip()` (lines 196, 220)
description_blank(d) == Strip(d) = << >>

\* Mutant: the comprehension reads the wrong field of the entries.
existing_coords_wrong_field(l) == { l[i].Description : i \in DOMAIN l }

\* existing_coords (line 200); the code only tests membership in it.
existing_coords(l) == { l[i].Coordinate : i \in DOMAIN l }

\* The dict literal of lines 204-208 and 227-231.  The timestamp is
\* datetime.now().isoformat(timespec="seconds"), kept as the second it names.
new_entry(c, d, t) == [Coordinate |-> c, Description |-> d, Timestamp |-> t]

\* Mutant: the entry is inserted at the front of the list.
append_entry_at_front(l, e) == << e >> \o l

\* st.session_state.log.append(entry) (line 204)
append_entry(l, e) == Append(l, e)

\* The index the loop of lines 225-233 stops at: the first entry whose
\* Coordinate equals coord, or 0 when there is none.
first_match(l, c) ==
    IF \E i \in DOMAIN l : l[i].Coordinate = c
    THEN CHOOSE i \in DOMAIN l :
             /\ l[i].Coordinate = c
             /\ \A j \in 1..(i - 1) : l[j].Coordinate # c
    ELSE 0

\* Mutant: the matched entry is deleted and the new one appended.
replace_entry_moves_to_end(l, i, e) ==
    SubSeq(l, 1, i - 1) \o SubSeq(l, i + 1, Len(l)) \o << e >>

\* st.session_state.log[i] = entry (line 227)
replace_entry(l, i, e) == [l EXCEPT ![i] = e]

\* Mutant: pop(0), the list without its first element.
pop_first_entry(l) == Tail(l)

\* st.session_state.log.pop() (line 283): the list without its last element.
pop_entry(l) == SubSeq(l, 1, Len(l) - 1)

\* Mutant: only the last entry is dropped.
clear_last_only(l) == SubSeq(l, 1, Len(l) - 1)

\* st.session_state.log.clear() (line 290)
clear_entries(l) == << >>

\* Mutant: Add does not look at the description.
add_to_inventory_any_description(l, c, d, t) ==
    IF coord_blank(c) THEN [log |-> l, message |-> "enter_coordinate"]
    ELSE IF c \in existing_coords(l) THEN [log |-> l, message |-> "already_exists"]
    ELSE [log |-> append_entry(l, new_entry(c, d, t)), message |-> "added"]

\* Mutant: an Add of a stored coordinate overwrites the stored entry.
add_to_inventory_overwrites(l, c, d, t) ==
    IF coord_blank(c) THEN [log |-> l, message |-> "enter_coordinate"]
    ELSE IF description_blank(d) THEN [log |-> l, message |-> "add_description"]
    ELSE IF c \in existing_coords(l)
         THEN [log |-> replace_entry(l, first_match(l, c), new_entry(c, d, t)),
               message |-> "already_exists"]
         ELSE [log |-> append_entry(l, new_entry(c, d, t)), message |-> "added"]

\* The "Add to inventory" branch (lines 194-209): the ledger and the message
\* it leaves.
add_to_inventory(l, c, d, t) ==
    IF coord_blank(c) THEN [log |-> l, message |-> "enter_coordinate"]
    ELSE IF description_blank(d) THEN [log |-> l, message |-> "add_description"]
    ELSE IF c \in existing_coords(l) THEN [log |-> l, message |-> "already_exists"]
    ELSE [log |-> append_entry(l, new_entry(c, d, t)), message |-> "added"]

\* Mutant: an Update of a coordinate that is not stored appends it.
update_existing_upserts(l, c, d, t) ==
    IF coord_blank(c) THEN [log |-> l, message |-> "enter_coordinate"]
    ELSE IF description_blank(d) THEN [log |-> l, message |-> "add_description"]
    ELSE IF first_match(l, c) # 0
         THEN [log |-> replace_entry(l, first_match(l, c), new_entry(c, d, t)),
               message |-> "updated"]
         ELSE [log |-> append_entry(l, new_entry(c, d, t)), message |-> "not_found"]

\* The "Update existing coordinate" branch (lines 218-239).
update_existing(l, c, d, t) ==
    IF coord_blank(c) THEN [log |-> l, message |-> "enter_coordinate"]
    ELSE IF description_blank(d) THEN [log |-> l, message |-> "add_description"]
    ELSE IF first_match(l, c) # 0
         THEN [log |-> replace_entry(l, first_match(l, c), new_entry(c, d, t)),
               message |-> "updated"]
         ELSE [log |-> l, message |-> "not_found"]

-----------------------------------------------------------------------------
(* Display and CSV export: section 6 of the script *)

\* Insertion of one row into rows already ordered by Coordinate, after the
\* rows that do not sort after it.
RECURSIVE insert_by_coordinate(_, _)
insert_by_coordinate(e, rows) ==
    IF rows = << >> THEN << e >>
    ELSE IF StrLess(e.Coordinate, Head(rows).Coordinate) THEN << e >> \o rows
    ELSE << Head(rows) >> \o insert_by_coordinate(e, Tail(rows))

\* pd.DataFrame(log).sort_values('Coordinate').reset_index(drop=True)
\* (lines 245-247): a new frame, ordered by the string order of Coordinate.
RECURSIVE sort_values(_)
sort_values(l) ==
    IF l = << >> THEN << >>
    ELSE insert_by_coordinate(l[Len(l)], sort_values(SubSeq(l, 1, Len(l) - 1)))

\* The digit of a second of the clock.
DigitOf(t) ==
    CASE t = 0 -> "0" [] t = 1 -> "1" [] t = 2 -> "2" [] t = 3 -> "3"
      [] t = 4 -> "4" [] OTHER -> "9"

\* datetime.isoformat(timespec="seconds") (lines 207, 230): the text stored
\* in the Timestamp column, of which the date and the hour are one token.
isoformat(t) == << "2024-01-01T00:00:0", DigitOf(t) >>

\* The text of one cell of the frame.
cell(e, column) ==
    CASE column = "Coordinate" -> e.Coordinate
      [] column = "Description" -> e.Description
      [] column = "Timestamp" -> isoformat(e.Timestamp)

\* The characters that make the csv writer quote a field.
NeedsQuoting(field) ==
    \E k \in DOMAIN field : field[k] \in { ",", "\"", "\n", "\r" }

\* The field with every double quote doubled.
RECURSIVE double_quotes(_)
double_quotes(field) ==
    IF field = << >> THEN << >>
    ELSE IF Head(field) = "\"" THEN << "\"", "\"" >> \o double_quotes(Tail(field))
    ELSE << Head(field) >> \o double_quotes(Tail(field))

\* Mutant: fields are written as they are.
csv_field_unquoted(field) == field

\* One field as DataFrame.to_csv writes it (QUOTE_MINIMAL, doublequote).
csv_field(field) ==
    IF NeedsQuoting(field)
    THEN << "\"" >> \o double_quotes(field) \o << "\"" >>
    ELSE field

\* One line: the fields separated by commas, ended by a newline.
RECURSIVE csv_line(_)
csv_line(fields) ==
    IF fields = << >> THEN << "\n" >>
    ELSE IF Len(fields) = 1 THEN csv_field(fields[1]) \o << "\n" >>
    ELSE csv_field(fields[1]) \o << "," >> \o csv_line(Tail(fields))

RECURSIVE csv_lines(_, _)
csv_lines(rows, columns) ==
    IF rows = << >> THEN << >>
    ELSE csv_line([k \in DOMAIN columns |-> cell(Head(rows), columns[k])])
             \o csv_lines(Tail(rows), columns)

\* df[columns].to_csv(index=False) (lines 253, 262): the header line, then
\* one line per row of the frame.
to_csv(rows, columns) ==
    csv_line([k \in DOMAIN columns |-> << columns[k] >>]) \o csv_lines(rows, columns)

BasicColumns == << "Coordinate", "Description" >>
FullColumns == << "Coordinate", "Description", "Timestamp" >>

-----------------------------------------------------------------------------
(* History *)

NoCalls == [only_adds |-> TRUE, args |-> << >>]
Void == [only_adds |-> FALSE, args |-> << >>]

\* The Add clicks served so far, kept while they are the only button clicks
\* served and have pairwise distinct non-blank coordinates and non-blank
\* descriptions.
RecordAdd(h, c, d) ==
    IF /\ h.only_adds
       /\ Strip(c) # << >>
       /\ Strip(d) # << >>
       /\ \A k \in DOMAIN h.args : h.args[k].Coordinate # c
    THEN [only_adds |-> TRUE,
          args |-> Append(h.args, [Coordinate |-> c, Description |-> d])]
    ELSE Void

-----------------------------------------------------------------------------
(* The session *)

Init ==
    /\ log = << >>
    /\ coordinate = << "A", "1" >>
    /\ description_area = EmptyStr
    /\ uploaded_files = << >>
    /\ now = 0
    /\ button = "none"
    /\ message = "none"
    /\ popped = NoEntry
    /\ calls = NoCalls
    /\ run = NoRun
    /\ peer = NoPeer

\* The values the text_area can hold after a run that serves no button, when
\* its session value at the start of the run is one of vs.
AfterRun(vs, files) == UNION { RunDescriptions(v, files) : v \in vs }

\* Mutant: drawing the table sorts the ledger itself.
WidgetRunSortsLedger(vs, n, descriptions) ==
    /\ \/ /\ MayRaise[n]
          /\ description_area' \in vs
          /\ message' = "exception"
          /\ log' = log
       \/ /\ description_area' \in descriptions
          /\ message' = "none"
          /\ log' = sort_values(log)
    /\ button' = "none"
    /\ popped' = NoEntry
    /\ UNCHANGED << now, calls, run, peer >>

\* A run that serves no button: the widgets are evaluated, OCR and synthesis
\* run on the uploaded files, the table is drawn.  vs are the session values
\* the text_area can have when the run starts, n the uploaded files,
\* descriptions the values the text_area can return.
WidgetRun(vs, n, descriptions) ==
    /\ \/ /\ MayRaise[n]
          /\ description_area' \in vs
          /\ message' = "exception"
       \/ /\ description_area' \in descriptions
          /\ message' = "none"
    /\ button' = "none"
    /\ popped' = NoEntry
    /\ UNCHANGED << log, now, calls, run, peer >>

\* The user edits the coordinate box (line 73).
EditCoordinate ==
    \E c \in CoordInputs :
        /\ c # coordinate
        /\ coordinate' = c
        /\ UNCHANGED uploaded_files
        /\ WidgetRun({ description_area }, uploaded_files,
                     RunDescriptions(description_area, uploaded_files))

\* The user edits the description box (lines 183-188).
EditDescription ==
    /\ UNCHANGED << coordinate, uploaded_files >>
    /\ WidgetRun(DescInputs \ { description_area }, uploaded_files,
                 AfterRun(DescInputs \ { description_area }, uploaded_files))

\* The user adds or removes files in the uploader (lines 76-81).
UploadFiles ==
    \E n \in UploadInputs :
        /\ n # uploaded_files
        /\ uploaded_files' = n
        /\ UNCHANGED coordinate
        /\ WidgetRun({ description_area }, n,
                     UNION { text_area(description_area, d, TRUE) :
                             d \in ProcessedTable[n] })

\* A run with a button clicked whose OCR raises: the script stops at line 173,
\* before any button is evaluated.
ScriptAbort ==
    /\ MayRaise[uploaded_files]
    /\ message' = "exception"
    /\ button' = "none"
    /\ popped' = NoEntry
    /\ UNCHANGED << log, coordinate, description_area, uploaded_files,
                    now, calls, run, peer >>

\* The values sample_description can take in a run that reaches the buttons.
SampleDescriptions == RunDescriptions(description_area, uploaded_files)

\* datetime.now() (lines 207, 230): a reading not earlier than the last one.
Readings == now..MaxClock

\* "Add to inventory" clicked (lines 193-214).  After the append the script
\* assigns the two widgets' session values; the runtime either refuses the
\* assignment to a widget already instantiated in this run (an exception ends
\* the run, the form is left as it was) or accepts it, and then st.rerun()
\* starts a run that serves no button.  sd is the value of
\* sample_description in the run, t the reading of datetime.now() if the run
\* takes one.
AddRun(sd, t) ==
    LET r == add_to_inventory(log, coordinate, sd, t) IN
    /\ r.message = "added" => Len(log) < MaxLog
    /\ log' = r.log
    /\ now' = IF r.message = "added" THEN t ELSE now
    /\ button' = "add"
    /\ popped' = NoEntry
    /\ calls' = RecordAdd(calls, coordinate, sd)
    /\ IF r.message = "added"
       THEN \/ /\ message' = "added_exception"
               /\ coordinate' = coordinate
               /\ description_area' = sd
            \/ /\ message' = "added"
               /\ coordinate' = EmptyStr
               /\ description_area' \in RunDescriptions(EmptyStr, uploaded_files)
       ELSE /\ message' = r.message
            /\ coordinate' = coordinate
            /\ description_area' = sd
    /\ UNCHANGED << uploaded_files, run, peer >>

AddToInventory ==
    \E sd \in SampleDescriptions :
        \E t \in IF add_to_inventory(log, coordinate, sd, now).message = "added"
                 THEN Readings ELSE { now } : AddRun(sd, t)

\* "Update existing coordinate" clicked (lines 217-239).
UpdateRun(sd, t) ==
    LET r == update_existing(log, coordinate, sd, t) IN
    /\ log' = r.log
    /\ now' = IF r.message = "updated" THEN t ELSE now
    /\ button' = "update"
    /\ message' = r.message
    /\ popped' = NoEntry
    /\ calls' = Void
    /\ IF r.message = "updated"
       THEN description_area' \in RunDescriptions(sd, uploaded_files)
       ELSE description_area' = sd
    /\ UNCHANGED << coordinate, uploaded_files, run, peer >>

UpdateExisting ==
    \E sd \in SampleDescriptions :
        \E t \in IF update_existing(log, coordinate, sd, now).message = "updated"
                 THEN Readings ELSE { now } : UpdateRun(sd, t)

\* "Remove last entry" clicked (lines 276-285).  The button is drawn only
\* while the ledger is non-empty, so a click served with an empty ledger
\* (one sent before the page was redrawn) finds no button and does nothing.
RemoveLastEntry ==
    /\ button' = "remove"
    /\ calls' = Void
    /\ IF log # << >>
       THEN /\ popped' = log[Len(log)]
            /\ log' = pop_entry(log)
            /\ message' = "removed"
            /\ description_area' \in AfterRun(SampleDescriptions, uploaded_files)
       ELSE /\ popped' = NoEntry
            /\ log' = log
            /\ message' = "none"
            /\ description_area' \in SampleDescriptions
    /\ UNCHANGED << coordinate, uploaded_files, now, run, peer >>

\* "Clear all entries" clicked (lines 276-292).
ClearAllEntries ==
    /\ button' = "clear"
    /\ popped' = NoEntry
    /\ calls' = Void
    /\ IF log # << >>
       THEN /\ log' = clear_entries(log)
            /\ message' = "cleared"
            /\ description_area' \in AfterRun(SampleDescriptions, uploaded_files)
       ELSE /\ log' = log
            /\ message' = "none"
            /\ description_area' \in SampleDescriptions
    /\ UNCHANGED << coordinate, uploaded_files, now, run, peer >>

Next ==
    \/ EditCoordinate
    \/ EditDescription
    \/ UploadFiles
    \/ ScriptAbort
    \/ AddToInventory
    \/ UpdateExisting
    \/ RemoveLastEntry
    \/ ClearAllEntries

Spec == Init /\ [][Next]_vars

-----------------------------------------------------------------------------
(* One script run, statement by statement *)

\* Responses of client.text_detection in a run followed image by image: the
\* images may carry different texts.
RunOcrResponses ==
    OcrResponses \cup { [kind |-> "annotations", texts |-> << << "Y" >> >>] }

\* The uploader's content when the run starts.
RunUploads == { << >>, << "img1" >>, << "img1", "img2" >> }

\* The ledger when the run starts: empty, one entry, or two entries written
\* in an order that is not the order of their coordinates, with descriptions
\* holding a comma, a double quote and a line break.
RunLedgers ==
    { << >>,
      << new_entry(<< "A", "1" >>, << "X" >>, 0) >>,
      << new_entry(<< "B", "2" >>, << "X", ",", "\"", "Y" >>, 0),
         new_entry(<< "A", "1" >>, << "Y", "\n", "X" >>, 0) >> }

\* The run starts: lines 49-50 bind the clients, lines 55-81 read the session
\* state and the widgets.  The session was left by earlier runs with any
\* ledger of RunLedgers and any form content.
RunInit ==
    /\ log \in RunLedgers
    /\ coordinate \in CoordInputs
    /\ description_area \in DescInputs
    /\ uploaded_files \in RunUploads
    /\ now = 0
    /\ button = "none"
    /\ message = "none"
    /\ popped = NoEntry
    /\ calls = Void
    /\ peer = NoPeer
    /\ \E client \in BOOLEAN :
          run = [pc |-> "ocr", client |-> client, responses |-> << >>,
                 ocr_results |-> << >>, invoked |-> FALSE, llm |-> "none",
                 processed_description |-> EmptyStr,
                 sample_description |-> EmptyStr,
                 csv |-> << >>, csv_full |-> << >>]

\* One iteration of the loop of run_ocr (lines 113-120) on the next file: the
\* call of line 89 returns a response, which ocr_bytes turns into a text, or
\* raises, and nothing in lines 86-121 or 171-173 catches the exception.
OcrImage ==
    /\ run.pc = "ocr"
    /\ Len(run.responses) < Len(uploaded_files)
    /\ \E response \in RunOcrResponses :
          IF response.kind = "raise"
          THEN /\ run' = [run EXCEPT !.pc = "aborted",
                                     !.responses = Append(@, response)]
               /\ message' = "exception"
          ELSE /\ run' = [run EXCEPT !.responses = Append(@, response),
                                     !.ocr_results = Append(@, ocr_bytes(response))]
               /\ message' = message
    /\ UNCHANGED << log, coordinate, description_area, uploaded_files, now,
                    button, popped, calls, peer >>

\* run_ocr has returned (or there was no file): lines 170-180.
Synthesize ==
    /\ run.pc = "ocr"
    /\ Len(run.responses) = Len(uploaded_files)
    /\ \E llm \in LlmOutcomes :
          LET invoked == \E i \in DOMAIN run.ocr_results :
                             Strip(run.ocr_results[i]) # << >>
          IN  run' = [run EXCEPT
                        !.pc = "text_area",
                        !.invoked = invoked,
                        !.llm = IF invoked /\ run.client THEN llm.kind ELSE "none",
                        !.processed_description =
                            processed_description(run.responses, run.client, llm)]
    /\ UNCHANGED << log, coordinate, description_area, uploaded_files, now,
                    button, message, popped, calls, peer >>

\* The text_area of lines 183-188 returns sample_description.
TextArea ==
    /\ run.pc = "text_area"
    /\ \E sd \in text_area(description_area, run.processed_description,
                           uploaded_files # << >>) :
          /\ run' = [run EXCEPT !.pc = "buttons", !.sample_description = sd]
          /\ description_area' = sd
    /\ UNCHANGED << log, coordinate, uploaded_files, now, button, message,
                    popped, calls, peer >>

\* The run was started by a click on "Add to inventory" (lines 193-214).
RunAdd ==
    /\ run.pc = "buttons"
    /\ \E t \in Readings :
          LET r == add_to_inventory(log, coordinate, run.sample_description, t) IN
          /\ r.message = "added" => Len(log) < MaxLog
          /\ log' = r.log
          /\ now' = IF r.message = "added" THEN t ELSE now
          /\ button' = "add"
          /\ IF r.message = "added"
             THEN \/ /\ message' = "added_exception"
                     /\ run' = [run EXCEPT !.pc = "raised"]
                     /\ UNCHANGED << coordinate, description_area >>
                  \/ /\ message' = "added"
                     /\ run' = [run EXCEPT !.pc = "rerun"]
                     /\ coordinate' = EmptyStr
                     /\ description_area' = EmptyStr
             ELSE /\ message' = r.message
                  /\ run' = [run EXCEPT !.pc = "display"]
                  /\ UNCHANGED << coordinate, description_area >>
    /\ UNCHANGED << uploaded_files, popped, calls, peer >>

\* The run was started by a click on "Update existing coordinate"
\* (lines 217-239).
RunUpdate ==
    /\ run.pc = "buttons"
    /\ \E t \in Readings :
          LET r == update_existing(log, coordinate, run.sample_description, t) IN
          /\ log' = r.log
          /\ now' = IF r.message = "updated" THEN t ELSE now
          /\ button' = "update"
          /\ message' = r.message
          /\ run' = [run EXCEPT !.pc = IF r.message = "updated"
                                       THEN "rerun" ELSE "display"]
    /\ UNCHANGED << coordinate, description_area, uploaded_files, popped,
                    calls, peer >>

\* The run was started by a widget change: neither button of section 5 is
\* clicked.
RunNoButton ==
    /\ run.pc = "buttons"
    /\ run' = [run EXCEPT !.pc = "display"]
    /\ UNCHANGED << log, coordinate, description_area, uploaded_files, now,
                    button, message, popped, calls, peer >>

\* Section 6 (lines 244-271): the table and the two downloads.
Display ==
    /\ run.pc = "display"
    /\ run' = [run EXCEPT
                 !.pc = "done",
                 !.csv = IF log # << >>
                         THEN to_csv(sort_values(log), BasicColumns) ELSE << >>,
                 !.csv_full = IF log # << >>
                              THEN to_csv(sort_values(log), FullColumns) ELSE << >>]
    /\ UNCHANGED << log, coordinate, description_area, uploaded_files, now,
                    button, message, popped, calls, peer >>

RunNext ==
    \/ OcrImage
    \/ Synthesize
    \/ TextArea
    \/ RunAdd
    \/ RunUpdate
    \/ RunNoButton
    \/ Display

RunSpec == RunInit /\ [][RunNext]_vars

-----------------------------------------------------------------------------
(* Two browser sessions served by the same process *)

\* What the two users type in the coordinate and description boxes.
SessionCoordInputs == { << "A", "1" >>, << "B", "2" >> }
SessionDescInputs == { << >>, << "X" >> }

Sessions == { 1, 2 }

\* Mutant: every session is given the state of the first one.
session_state_shared(s) == 1

\* st.session_state in a run of session s: the runtime keeps one state per
\* session, and the script reaches the ledger only through it (lines 55-56).
session_state(s) == s

\* The ledgers held in the runtime's session states.
SessionLogs == << log, peer.log >>

SessionsInit ==
    /\ log = << >>
    /\ coordinate = << "A", "1" >>
    /\ description_area = EmptyStr
    /\ uploaded_files = << >>
    /\ now = 0
    /\ button = "none"
    /\ message = "none"
    /\ popped = NoEntry
    /\ calls = Void
    /\ run = NoRun
    /\ peer = [connected |-> TRUE, log |-> << >>,
               coordinate |-> << "A", "1" >>, description_area |-> EmptyStr]

\* A run of session s ends with ledger l in its session state and c, d in its
\* form.
SessionRunEnds(s, l, c, d) ==
    LET logs == [SessionLogs EXCEPT ![session_state(s)] = l] IN
    /\ log' = logs[1]
    /\ coordinate' = IF s = 1 THEN c ELSE coordinate
    /\ description_area' = IF s = 1 THEN d ELSE description_area
    /\ peer' = [connected |-> TRUE, log |-> logs[2],
                coordinate |-> IF s = 2 THEN c ELSE peer.coordinate,
                description_area |-> IF s = 2 THEN d ELSE peer.description_area]
    /\ popped' = NoEntry
    /\ UNCHANGED << uploaded_files, now, calls, run >>

\* The user of session s types c and d and clicks "Add to inventory"
\* (lines 193-214).
SessionAdd(s, c, d) ==
    LET l == SessionLogs[session_state(s)]
        r == add_to_inventory(l, c, d, now)
    IN  /\ r.message = "added" => Len(l) < MaxLog
        /\ button' = "add"
        /\ IF r.message = "added"
           THEN \/ /\ message' = "added_exception"
                   /\ SessionRunEnds(s, r.log, c, d)
                \/ /\ message' = "added"
                   /\ SessionRunEnds(s, r.log, EmptyStr, EmptyStr)
           ELSE /\ message' = r.message
                /\ SessionRunEnds(s, r.log, c, d)

\* The user of session s types c and d and clicks "Update existing
\* coordinate" (lines 217-239).
SessionUpdate(s, c, d) ==
    LET r == update_existing(SessionLogs[session_state(s)], c, d, now) IN
    /\ button' = "update"
    /\ message' = r.message
    /\ SessionRunEnds(s, r.log, c, d)

\* The form of session s.
SessionForm(s) ==
    IF s = 1 THEN [coordinate |-> coordinate, description_area |-> description_area]
    ELSE [coordinate |-> peer.coordinate, description_area |-> peer.description_area]

\* The user of session s clicks "Remove last entry" (lines 276-285).
SessionRemove(s) ==
    LET l == SessionLogs[session_state(s)] IN
    /\ l # << >>
    /\ button' = "remove"
    /\ message' = "removed"
    /\ SessionRunEnds(s, pop_entry(l), SessionForm(s).coordinate,
                      SessionForm(s).description_area)

\* The user of session s clicks "Clear all entries" (lines 287-292).
SessionClear(s) ==
    LET l == SessionLogs[session_state(s)] IN
    /\ l # << >>
    /\ button' = "clear"
    /\ message' = "cleared"
    /\ SessionRunEnds(s, clear_entries(l), SessionForm(s).coordinate,
                      SessionForm(s).description_area)

\* Any run of session s.
SessionStep(s) ==
    \/ \E c \in SessionCoordInputs, d \in SessionDescInputs :
          SessionAdd(s, c, d) \/ SessionUpdate(s, c, d)
    \/ SessionRemove(s)
    \/ SessionClear(s)

SessionsNext == \E s \in Sessions : SessionStep(s)

SessionsSpec == SessionsInit /\ [][SessionsNext]_vars

-----------------------------------------------------------------------------
(* Properties *)

\* The coordinates stored in a ledger.
Coordinates(l) == { l[i].Coordinate : i \in DOMAIN l }

\* The index of the entry of l stored under coordinate c (0 if none).
IndexOf(l, c) ==
    IF c \in Coordinates(l) THEN CHOOSE i \in DOMAIN l : l[i].Coordinate = c ELSE 0

IsBlank(str) == Strip(str) = << >>

ValidationWarnings == { "enter_coordinate", "add_description" }

\* C1: in every reachable state no two entries of the ledger have the same
\* Coordinate.
C1_UniqueCoordinates ==
    \A i, j \in DOMAIN log : i # j => log[i].Coordinate # log[j].Coordinate

\* A full ledger on which an Add of a stored coordinate has just been refused.
C1_Witness ==
    /\ Len(log) = MaxLog
    /\ button = "add"
    /\ message = "already_exists"

\* C2: an Add whose coordinate is already stored is rejected and leaves the
\* ledger exactly as it was.
C2_AddDuplicateRejected ==
    [][ (button' = "add" /\ coordinate \in Coordinates(log) /\ AddToInventory)
            => /\ log' = log
               /\ message' \in ValidationWarnings \cup { "already_exists" } ]_vars

\* An Add of a stored coordinate with a valid description has been refused.
C2_Witness ==
    /\ button = "add"
    /\ message = "already_exists"
    /\ coordinate \in Coordinates(log)
    /\ ~IsBlank(description_area)
    /\ log[IndexOf(log, coordinate)].Description # description_area

-----------------------------------------------------------------------------

\* str.lower() on the letters used
Lower(str) ==
    [k \in DOMAIN str |->
        CASE str[k] = "A" -> "a" [] str[k] = "B" -> "b" [] OTHER -> str[k]]

\* A coordinate with case and surrounding whitespace folded away.
Normalize(c) == Lower(Strip(c))

\* C3: coordinates are unique up to letter case and leading/trailing
\* whitespace: the ledger never holds two entries whose normalized
\* coordinates are equal.
C3_NormalizedUnique ==
    \A i, j \in DOMAIN log :
        i # j => Normalize(log[i].Coordinate) # Normalize(log[j].Coordinate)

\* C4 as stated: every Update on a stored coordinate replaces that entry's
\* Description and Timestamp in place.
C4_Original ==
    [][ (button' = "update" /\ coordinate \in Coordinates(log)) =>
        \A sd \in SampleDescriptions, t \in Readings :
          UpdateRun(sd, t)
            => LET i == IndexOf(log, coordinate) IN
               /\ Len(log') = Len(log)
               /\ log'[i] = [Coordinate |-> coordinate, Description |-> sd,
                             Timestamp |-> t]
               /\ \A j \in DOMAIN log : j # i => log'[j] = log[j] ]_vars

\* C4 (amended): an Update with a non-blank description on a stored
\* coordinate replaces that entry's Description and Timestamp in place: same
\* index, same length, every other entry unchanged.  With a blank
\* description the Update is refused and the ledger is unchanged.
C4_UpdateInPlace ==
    [][ (button' = "update" /\ coordinate \in Coordinates(log)) =>
        \A sd \in SampleDescriptions, t \in Readings :
          UpdateRun(sd, t)
            => LET i == IndexOf(log, coordinate) IN
               IF IsBlank(sd)
               THEN log' = log /\ message' = "add_description"
               ELSE /\ Len(log') = Len(log)
                    /\ log'[i] = [Coordinate |-> coordinate, Description |-> sd,
                                  Timestamp |-> t]
                    /\ \A j \in DOMAIN log : j # i => log'[j] = log[j]
                    /\ message' = "updated" ]_vars

\* The first of two entries was updated after the second was written and is
\* still first.
C4_Witness ==
    /\ button = "update"
    /\ message = "updated"
    /\ Len(log) = 2
    /\ log[1].Timestamp > log[2].Timestamp

\* C5 as stated: every Update on a coordinate that is not stored fails with
\* the not-found warning and leaves the ledger unchanged.
C5_Original ==
    [][ (button' = "update" /\ coordinate \notin Coordinates(log)) =>
        \A sd \in SampleDescriptions, t \in Readings :
          UpdateRun(sd, t)
            => log' = log /\ message' = "not_found" ]_vars

\* C5 (amended): an Update on a coordinate that is not stored leaves the
\* ledger unchanged; it warns not-found when coordinate and description are
\* both non-blank, and gives the validation warning otherwise.
C5_UpdateMissing ==
    [][ (button' = "update" /\ coordinate \notin Coordinates(log)) =>
        \A sd \in SampleDescriptions, t \in Readings :
          UpdateRun(sd, t)
            => /\ log' = log
               /\ message' = IF IsBlank(coordinate) THEN "enter_coordinate"
                             ELSE IF IsBlank(sd) THEN "add_description"
                             ELSE "not_found" ]_vars

\* An Update of a coordinate missing from a non-empty ledger was refused.
C5_Witness ==
    /\ button = "update"
    /\ message = "not_found"
    /\ log # << >>
    /\ coordinate \notin Coordinates(log)

\* C6: Remove-last on a non-empty ledger removes exactly the last element of
\* the insertion-ordered sequence and leaves the others as they were; on an
\* empty ledger it changes nothing and raises nothing.
C6_RemoveLast ==
    [][ (button' = "remove" /\ RemoveLastEntry)
          => IF log # << >>
             THEN /\ Len(log') = Len(log) - 1
                  /\ \A i \in DOMAIN log' : log'[i] = log[i]
                  /\ popped' = log[Len(log)]
                  /\ message' = "removed"
             ELSE /\ log' = log
                  /\ message' = "none" ]_vars

\* The entry removed was neither the one written last in time nor the one
\* shown last in the coordinate-sorted table.
C6_Witness ==
    /\ button = "remove"
    /\ message = "removed"
    /\ \E i \in DOMAIN log : log[i].Timestamp > popped.Timestamp
    /\ \E i \in DOMAIN log : StrLess(popped.Coordinate, log[i].Coordinate)

\* C7: after n Adds with pairwise distinct non-blank coordinates and
\* non-blank descriptions from an empty ledger, every Add has succeeded and
\* the ledger holds exactly those n entries in the order of the calls.
C7_DistinctAddsKept ==
    calls.only_adds =>
        /\ Len(log) = Len(calls.args)
        /\ \A i \in DOMAIN log :
              /\ log[i].Coordinate = calls.args[i].Coordinate
              /\ log[i].Description = calls.args[i].Description
        /\ \A i \in DOMAIN calls.args : calls.args[i].Coordinate \in Coordinates(log)
        /\ button = "add" => message \in { "added", "added_exception" }

\* MaxLog such Adds have been made, with different coordinates and descriptions.
C7_Witness ==
    /\ calls.only_adds
    /\ Len(calls.args) = MaxLog
    /\ calls.args[1].Description # calls.args[2].Description

\* C8: an Add or Update whose coordinate or description is empty or
\* whitespace-only is refused with a warning and leaves the ledger unchanged.
C8_BlankInputRejected ==
    [][ button' \in { "add", "update" } =>
        \A sd \in SampleDescriptions :
          (IsBlank(coordinate) \/ IsBlank(sd)) =>
            \A t \in Readings :
              (AddRun(sd, t) \/ UpdateRun(sd, t))
                => /\ log' = log
                   /\ message' \in ValidationWarnings ]_vars

\* An Update with a whitespace-only coordinate was refused on a non-empty ledger.
C8_Witness ==
    /\ button = "update"
    /\ message = "enter_coordinate"
    /\ coordinate = << " " >>
    /\ ~IsBlank(description_area)
    /\ log # << >>

\* C9: every entry in the ledger has a non-blank Coordinate and a non-blank
\* Description.
C9_NoBlankFields ==
    \A i \in DOMAIN log :
        ~IsBlank(log[i].Coordinate) /\ ~IsBlank(log[i].Description)

\* A full ledger on which an Add with a whitespace-only description was refused.
C9_Witness ==
    /\ Len(log) = MaxLog
    /\ message = "add_description"
    /\ description_area = << " " >>

\* C10: Clear leaves the ledger empty whatever it held, and on an already
\* empty ledger it changes nothing and raises nothing.
C10_ClearEmpties ==
    [][ (button' = "clear" /\ ClearAllEntries)
          => /\ log' = << >>
             /\ message' = IF log = << >> THEN "none" ELSE "cleared" ]_vars

\* A ledger emptied by Clear.
C10_Witness ==
    /\ button = "clear"
    /\ message = "cleared"
    /\ log = << >>

-----------------------------------------------------------------------------
(* Properties of one run *)

\* The run reached the buttons with files uploaded, and the annotation
\* service answered every call without error and without text.
NoTextRun ==
    /\ run.pc = "buttons"
    /\ uploaded_files # << >>
    /\ \A i \in DOMAIN run.responses :
          /\ run.responses[i].kind = "annotations"
          /\ run.ocr_results[i] = EmptyStr

UpstreamFailed ==
    \/ \E i \in DOMAIN run.responses : run.responses[i].kind \in { "error", "raise" }
    \/ run.llm = "raise"

\* C12: whenever an upstream step (the annotation call or the description
\* synthesis) has failed during a run, no step of that run adds or changes a
\* ledger entry.
C12_FailedRunKeepsLedger ==
    [][ UpstreamFailed => log' = log ]_vars

\* C13: a failure of the annotation service on one image, reported in the
\* response or raised by the call, is caught at the call and yields an empty
\* text for that image without aborting the batch: no run is aborted by OCR,
\* and once run_ocr is over there is exactly one result per uploaded file,
\* in upload order, empty for the images whose call failed.
C13_OcrNeverAborts ==
    /\ run.pc # "aborted"
    /\ run.pc \in { "text_area", "buttons", "display", "rerun", "raised", "done" }
          => /\ Len(run.ocr_results) = Len(uploaded_files)
             /\ \A i \in DOMAIN uploaded_files :
                   run.ocr_results[i] =
                       IF run.responses[i].kind \in { "error", "raise" }
                          \/ run.responses[i].texts = << >>
                       THEN EmptyStr
                       ELSE Strip(run.responses[i].texts[1])

\* The synthesizer was unavailable or its call raised in the run in progress.
SynthesisFailed(r) == r.invoked /\ (~r.client \/ r.llm = "raise")

\* C14: when the synthesizer is unavailable (no client) or its call raises,
\* process_with_llm still returns: the run goes on to the text_area with the
\* non-blank OCR results joined by " | " in upload order as the generated
\* description, and an Add or an Update made with that description in the
\* box writes it to the ledger.
C14_SynthesisFallback ==
    [][ /\ (run.pc = "ocr" /\ run'.pc \notin { "ocr", "aborted" })
            => /\ run'.pc = "text_area"
               /\ SynthesisFailed(run')
                    => /\ run'.processed_description = Join(NonBlank(run.ocr_results))
                       /\ ~IsBlank(run'.processed_description)
        /\ ( /\ run.pc = "buttons"
             /\ SynthesisFailed(run)
             /\ run.sample_description = run.processed_description
             /\ ~IsBlank(coordinate) )
            => /\ (button' = "add" /\ coordinate \notin Coordinates(log))
                    => /\ Len(log') = Len(log) + 1
                       /\ log'[Len(log')].Coordinate = coordinate
                       /\ log'[Len(log')].Description = Join(NonBlank(run.ocr_results))
               /\ (button' = "update" /\ coordinate \in Coordinates(log))
                    => /\ message' = "updated"
                       /\ log'[IndexOf(log, coordinate)].Description =
                              Join(NonBlank(run.ocr_results)) ]_vars

\* The synthesis call raised on the texts "Y" and "X" of two images, and the
\* Update that followed stored "Y | X".
C14_Witness ==
    /\ run.llm = "raise"
    /\ run.ocr_results = << << "Y" >>, << "X" >> >>
    /\ button = "update"
    /\ message = "updated"
    /\ \E i \in DOMAIN log : log[i].Description = << "Y", " ", "|", " ", "X" >>

\* A csv reader: the lines of a text, each the sequence of its fields, with
\* quoted fields unquoted.  quoted: inside a quoted field; field, row: the
\* field and the line read so far.
RECURSIVE ReadCsv(_, _, _, _)
ReadCsv(text, quoted, field, row) ==
    IF text = << >>
    THEN IF field = << >> /\ row = << >> THEN << >> ELSE << Append(row, field) >>
    ELSE LET c == Head(text) IN
         IF quoted
         THEN IF c = "\""
              THEN IF Len(text) > 1 /\ text[2] = "\""
                   THEN ReadCsv(Tail(Tail(text)), TRUE, Append(field, "\""), row)
                   ELSE ReadCsv(Tail(text), FALSE, field, row)
              ELSE ReadCsv(Tail(text), TRUE, Append(field, c), row)
         ELSE IF c = "\"" /\ field = << >> THEN ReadCsv(Tail(text), TRUE, field, row)
         ELSE IF c = "," THEN ReadCsv(Tail(text), FALSE, << >>, Append(row, field))
         ELSE IF c = "\n"
              THEN << Append(row, field) >> \o ReadCsv(Tail(text), FALSE, << >>, << >>)
         ELSE ReadCsv(Tail(text), FALSE, Append(field, c), row)

\* lines is a header line followed by one line per entry of l, the lines in
\* increasing order of their first field, each entry of l being the line
\* that fields(entry) describes.
ExportsLedger(lines, header, l, fields(_)) ==
    /\ Len(lines) = Len(l) + 1
    /\ lines[1] = header
    /\ \A i \in DOMAIN l :
          Cardinality({ k \in 2..Len(lines) : lines[k] = fields(l[i]) }) = 1
    /\ \A k \in 2..(Len(lines) - 1) : StrLess(lines[k][1], lines[k + 1][1])

BasicFields(e) == << e.Coordinate, e.Description >>
FullFields(e) == << e.Coordinate, e.Description, isoformat(e.Timestamp) >>

\* C17: whenever the ledger is non-empty, each exported CSV holds exactly one
\* data row per ledger entry, ordered by coordinate string, whose Coordinate
\* and Description are those of the entry; the basic export has the columns
\* Coordinate and Description only, the full export also Timestamp.
C17_CsvExport ==
    (run.pc = "done" /\ log # << >>)
        => /\ ExportsLedger(ReadCsv(run.csv, FALSE, << >>, << >>),
                            << << "Coordinate" >>, << "Description" >> >>,
                            log, BasicFields)
           /\ ExportsLedger(ReadCsv(run.csv_full, FALSE, << >>, << >>),
                            << << "Coordinate" >>, << "Description" >>,
                               << "Timestamp" >> >>,
                            log, FullFields)

\* The downloads were built from two entries whose insertion order is not
\* their coordinate order and whose descriptions need quoting.
C17_Witness ==
    /\ run.pc = "done"
    /\ Len(log) = 2
    /\ StrLess(log[2].Coordinate, log[1].Coordinate)
    /\ \E i \in DOMAIN log : "\"" \in { log[i].Description[k] : k \in DOMAIN log[i].Description }
    /\ \E i \in DOMAIN log : "\n" \in { log[i].Description[k] : k \in DOMAIN log[i].Description }
    /\ run.csv # run.csv_full

\* C19: the synthesizer is invoked only in runs where some OCR result has
\* non-blank text: in the other runs process_with_llm is not called, no
\* synthesis call is made and the generated description is empty; and in no
\* run is the placeholder "No text detected in images" the generated
\* description.
C19_PlaceholderNeverProduced ==
    run.pc \in { "text_area", "buttons", "display", "rerun", "raised", "done" }
        => /\ (\A i \in DOMAIN run.ocr_results : IsBlank(run.ocr_results[i]))
                 => /\ ~run.invoked
                    /\ run.llm = "none"
                    /\ run.processed_description = EmptyStr
           /\ run.processed_description # NoTextDetected

\* A run with a synthesizer configured went through two images without text.
C19_Witness ==
    /\ run.pc = "done"
    /\ run.client
    /\ Len(uploaded_files) = 2
    /\ run.ocr_results = << EmptyStr, EmptyStr >>
    /\ run.responses[1].kind # run.responses[2].kind

-----------------------------------------------------------------------------
(* Properties of the session, continued *)

\* C15: the ledger is empty when the session starts and is changed only by
\* a successful Add (one entry appended), Update (same length), Remove-last
\* or Clear; every other run (drawing the sorted table and the downloads,
\* uploading, OCR and synthesis, editing the form, a refused Add or Update)
\* leaves its entries and their order as they were.
C15_LedgerFrame ==
    /\ log = << >>
    /\ [][ log' # log =>
             \/ /\ button' = "add"
                /\ message' \in { "added", "added_exception" }
                /\ log' = Append(log, log'[Len(log')])
             \/ /\ button' = "update"
                /\ message' = "updated"
                /\ Len(log') = Len(log)
             \/ /\ button' = "remove"
                /\ message' = "removed"
                /\ log' = SubSeq(log, 1, Len(log) - 1)
             \/ /\ button' = "clear"
                /\ message' = "cleared"
                /\ log' = << >> ]_vars

\* A run that served no button ran OCR on uploaded files and drew the table
\* of a ledger whose insertion order is not its coordinate order.
C15_Witness ==
    /\ button = "none"
    /\ message = "none"
    /\ uploaded_files # << >>
    /\ Len(log) = 2
    /\ StrLess(log[2].Coordinate, log[1].Coordinate)
    /\ ~IsBlank(description_area)

-----------------------------------------------------------------------------
(* Properties of two sessions *)

\* C16: each session has its own ledger.  Under any interleaving, a run of
\* one session leaves the other session's ledger as it was, and an Add of a
\* non-blank coordinate and description succeeds in a session whose own
\* ledger lacks the coordinate, whether or not the other session's ledger
\* holds it.
C16_SessionsIsolated ==
    [][ /\ SessionStep(1) => peer'.log = peer.log
        /\ SessionStep(2) => log' = log
        /\ \A c \in SessionCoordInputs, d \in SessionDescInputs :
              /\ (SessionAdd(1, c, d) /\ ~IsBlank(d) /\ c \notin Coordinates(log))
                    => log' = Append(log, new_entry(c, d, now))
              /\ (SessionAdd(2, c, d) /\ ~IsBlank(d) /\ c \notin Coordinates(peer.log))
                    => peer'.log = Append(peer.log, new_entry(c, d, now)) ]_vars

\* An Add has just put in the second session's ledger a coordinate that
\* the first session's ledger holds too, at another position.
C16_Witness ==
    /\ button = "add"
    /\ message \in { "added", "added_exception" }
    /\ Len(peer.log) = 1
    /\ Len(log) = 2
    /\ log[2].Coordinate = peer.log[1].Coordinate

-----------------------------------------------------------------------------
(* Properties of the form *)

\* C18: a successful Add resets the coordinate and description fields to
\* empty and reruns the script, so that an Add clicked again without new
\* input is rejected by validation.
C18_AddResetsForm ==
    [][ (button' = "add" /\ log' # log)
          => /\ message' = "added"
             /\ coordinate' = EmptyStr
             /\ IsBlank(description_area') ]_vars

====
